---- MODULE Spec2Model ----
(***************************************************************************)
(* Model of model/data_collection.py: the landmark normaliser              *)
(* (normalize_landmarks), the CSV initialisation and the webcam capture    *)
(* loop that appends one labelled row per operator key press.              *)
(*                                                                         *)
(* Numbers.  An x or y coordinate is a float64 value n + a * 2^-52, kept   *)
(* as the pair <<n, a>> of small integers (1 + 2^-52 is the float64 next   *)
(* to 1.0).  Sums and differences of such values are rounded to float64    *)
(* as the code's are: to the nearest value, ties to the even mantissa.     *)
(* z and visibility are whole numbers.  Landmark inputs are drawn so that  *)
(* the eye distance is 0, a few 2^-52, or a power of two, and so that the  *)
(* mean of z is a whole number or a dyadic fraction: on these inputs the   *)
(* divisions of the code are exact in float64, and every fraction          *)
(* <<num, den>> (lowest terms, den > 0) of the model is the value the      *)
(* code holds.                                                             *)
(*                                                                         *)
(* Indices.  Python sequences are 0-based, TLA+ sequences 1-based: the     *)
(* landmark with Python index i is element i + 1.                          *)
(*                                                                         *)
(* File.  A row of the file is kept as what was written (the column names, *)
(* or the label and frame of a label command), how many of its cells       *)
(* reached the file, and whether the line end did; Cells gives its cells.  *)
(***************************************************************************)
EXTENDS Integers, Sequences, FiniteSets, TLC

VARIABLES
    \* ---- capture script ----
    state,      \* "START", "CSV_READY", "RUNNING", "STOPPED", "CRASHED"
    fileExists, \* os.path.exists(CSV_FILE)
    file,       \* rows of CSV_FILE, in order
    capHeld,    \* the VideoCapture is opened and not released
    stdoutEncodes, \* sys.stdout can encode the message of line 167 (UTF-8, cp1252: yes; ASCII, Latin-1: no)
    last,       \* what the loop handled last: [event, frame]; frame is set for a label command
    \* ---- history of the capture script ----
    existed0,   \* fileExists at start-up
    file0,      \* the file's rows at start-up
    nLogged,    \* label commands handled to the end (line 173 reached)
    nNormOk,    \* label commands handled whose normalisation returned a vector
    \* ---- normaliser harness ----
    inFace, inPose, shift, out, outShifted

vars == <<state, fileExists, file, capHeld, last, existed0, file0, nLogged, nNormOk,
          stdoutEncodes, inFace, inPose, shift, out, outShifted>>
loopVars == <<state, fileExists, file, capHeld, last, existed0, file0, nLogged, nNormOk,
              stdoutEncodes>>
normVars == <<inFace, inPose, shift, out, outShifted>>

---------------------------------------------------------------------------
(* Program constants *)
FACE_COUNT == 468
POSE_COUNT == 33
NOSE == 1
LEFT_EYE == 33
RIGHT_EYE == 263
EPS_INV == 1000000       \* 1 / 1e-6
ORD_Q == 113
ESC == 27
ORD_0 == 48
ORD_1 == 49
NO_KEY == 255            \* waitKey(1) = -1, & 0xFF

(* Bounds of the model *)
MaxRows == 2             \* rows appended in one run
MaxEyeExp == 1           \* eye distances range over 2^0 .. 2^MaxEyeExp
MaxShift == 1            \* whole part of the translation offsets: -MaxShift..MaxShift

---------------------------------------------------------------------------
(* Whole numbers and exact fractions *)
Abs(n) == IF n < 0 THEN -n ELSE n
Max(a, b) == IF a < b THEN b ELSE a

RECURSIVE GCD(_, _)
GCD(a, b) == IF b = 0 THEN a ELSE GCD(b, a % b)

RECURSIVE Pow2(_)
Pow2(k) == IF k = 0 THEN 1 ELSE 2 * Pow2(k - 1)

\* the largest power of two that is at most m, m >= 1
RECURSIVE Pow2Floor(_)
Pow2Floor(m) == IF m < 2 THEN 1 ELSE 2 * Pow2Floor(m \div 2)

\* n / d, d # 0
Rat(n, d) ==
    LET g == GCD(Abs(n), Abs(d))
        s == IF d < 0 THEN -1 ELSE 1
    IN  <<(s * n) \div g, (s * d) \div g>>

RatSub(a, b) == Rat(a[1] * b[2] - b[1] * a[2], a[2] * b[2])

---------------------------------------------------------------------------
(* float64: <<n, a>> is n + a * 2^-52 *)
F(n, a) == <<n, a>>
Zero == F(0, 0)
One == F(1, 0)

\* distance between neighbouring float64 values at m + s * 2^-52, m >= 1, in
\* units of 2^-52: 2^e on [2^e, 2^(e+1)); just below a power of two half of that
\* (below 1.0 it is 2^-53, so every whole number of units is a float64 value)
Grain(m, s) ==
    IF s < 0 /\ Pow2Floor(m) = m THEN Max(1, m \div 2) ELSE Pow2Floor(m)

\* a rounded to a multiple of g: to the nearest, a tie to the even multiple
RoundHalfEven(a, g) ==
    LET q == a \div g
        r == a % g
    IN  IF 2 * r < g THEN q * g
        ELSE IF 2 * r > g THEN (q + 1) * g
        ELSE IF q % 2 = 0 THEN q * g ELSE (q + 1) * g

\* the float64 value nearest to n + a * 2^-52 (values below 1 in size: exact)
FRound(n, a) ==
    IF n = 0 THEN F(0, a)
    ELSE IF n > 0 THEN F(n, RoundHalfEven(a, Grain(n, a)))
    ELSE F(n, -RoundHalfEven(-a, Grain(-n, -a)))

\* float64 +, - and abs
FAdd(x, y) == FRound(x[1] + y[1], x[2] + y[2])
FSub(x, y) == FRound(x[1] - y[1], x[2] - y[2])
FAbs(x) == IF x[1] < 0 \/ (x[1] = 0 /\ x[2] < 0) THEN F(-x[1], -x[2]) ELSE x

\* float64 / by a scale that is a power of two (1.0 included): exact
FDiv(p, s) ==
    CASE s[2] = 0 /\ s[1] >= 1 /\ Pow2Floor(s[1]) = s[1] ->
        <<Rat(p[1], s[1]), Rat(p[2], s[1])>>

---------------------------------------------------------------------------
(* Landmark sets: results.face_landmarks / results.pose_landmarks *)
None == [present |-> FALSE, landmark |-> <<>>]
LandmarkList(seq) == [present |-> TRUE, landmark |-> seq]

\* getattr(lm, 'visibility', 0.0)
Visibility(lm) == IF "visibility" \in DOMAIN lm THEN lm.visibility ELSE 0

\* np.linalg.norm of a 2-vector with a zero component: sqrt(d*d + 0*0) = |d|
Norm(dx, dy) ==
    CASE dy = Zero -> FAbs(dx)
      [] dx = Zero -> FAbs(dy)

\* d < 1e-6 for d >= 0: d = a * 2^-52 with a * 10^6 < 2^52, that is a * 5^6 < 2^46
BelowEps(d) ==
    d[1] = 0 /\ (d[2] * (EPS_INV \div Pow2(6))) \div Pow2(23) < Pow2(23)

\* sum of the z of points lo..hi (halving keeps the evaluation shallow)
RECURSIVE SumZ(_, _, _)
SumZ(pts, lo, hi) ==
    IF lo > hi THEN 0
    ELSE IF lo = hi THEN pts[lo].z
    ELSE LET mid == (lo + hi) \div 2
         IN  SumZ(pts, lo, mid) + SumZ(pts, mid + 1, hi)

\* rows of an n x w array, flattened row by row
Flatten(rows, w) ==
    [k \in 1..(Len(rows) * w) |-> rows[((k - 1) \div w) + 1][((k - 1) % w) + 1]]

\* line 71
MissingInputAnd(face, pose) == ~face.present /\ ~pose.present
MissingInput(face, pose) == ~face.present \/ ~pose.present

\* line 79: ref = face[1, :2]
Ref(face) == <<face[NOSE + 1].x, face[NOSE + 1].y>>

\* lines 83-92: eye_dist, or 1.0 when it is below 1e-6 or an index is missing
EyeDist(face) ==
    Norm(FSub(face[LEFT_EYE + 1].x, face[RIGHT_EYE + 1].x),
         FSub(face[LEFT_EYE + 1].y, face[RIGHT_EYE + 1].y))
Scale(face) ==
    IF Len(face) > RIGHT_EYE /\ Len(face) > LEFT_EYE
    THEN IF BelowEps(EyeDist(face)) THEN One ELSE EyeDist(face)
    ELSE One   \* IndexError caught at line 91

\* (p[:2] - ref) / scale
XY(p, ref, scale) ==
    <<FDiv(FSub(p.x, ref[1]), scale), FDiv(FSub(p.y, ref[2]), scale)>>

\* z - np.mean(z) over the n points of the set
CenterZ(p, sum, n) == Rat(n * p.z - sum, n)

\* lines 95-99
FaceRow(p, ref, scale, sum, n) == XY(p, ref, scale) \o <<CenterZ(p, sum, n)>>
FaceFlat(face, ref, scale) ==
    LET n == Len(face)
        sum == SumZ(face, 1, n)
    IN  Flatten([i \in 1..n |-> FaceRow(face[i], ref, scale, sum, n)], 3)

\* lines 102-105
PoseXYNoRef(p, ref, scale) == XY(p, <<Zero, Zero>>, scale)
PoseXY(p, ref, scale) == XY(p, ref, scale)
PoseRowSwapped(p, ref, scale, sum, n) ==
    PoseXY(p, ref, scale) \o <<Rat(Visibility(p), 1), CenterZ(p, sum, n)>>
PoseRow(p, ref, scale, sum, n) ==
    PoseXY(p, ref, scale) \o <<CenterZ(p, sum, n), Rat(Visibility(p), 1)>>
PoseFlat(pose, ref, scale) ==
    LET n == Len(pose)
        sum == SumZ(pose, 1, n)
    IN  Flatten([i \in 1..n |-> PoseRow(pose[i], ref, scale, sum, n)], 4)

Raise(e) == [raised |-> e, vals |-> <<>>]
Return(v) == [raised |-> "None", vals |-> v]

\* lines 69-107
normalize_landmarks(face_landmarks, pose_landmarks) ==
    IF MissingInput(face_landmarks, pose_landmarks)
    THEN Raise("ValueError")
    ELSE IF ~face_landmarks.present \/ ~pose_landmarks.present
    THEN Raise("AttributeError")       \* None.landmark, lines 75-76
    ELSE LET face == face_landmarks.landmark
             pose == pose_landmarks.landmark
         IN  IF Len(face) < NOSE + 1
             THEN Raise("IndexError")  \* face[1, :2], line 79
             ELSE IF Len(pose) = 0
             THEN Raise("IndexError")  \* pose[:, :2] of an array of shape (0,), line 102
             ELSE Return(FaceFlat(face, Ref(face), Scale(face))
                         \o PoseFlat(pose, Ref(face), Scale(face)))

---------------------------------------------------------------------------
(* Inputs: landmark sets as the detector can hand them over *)
FacePt(x, y, z) == [x |-> x, y |-> y, z |-> z]

\* a face of n points: nose, left eye and right eye at their indices, `rest` elsewhere
MakeFace(n, nose, le, re, rest) ==
    LandmarkList([i \in 1..n |->
        IF i = NOSE + 1 THEN nose
        ELSE IF i = LEFT_EYE + 1 THEN le
        ELSE IF i = RIGHT_EYE + 1 THEN re
        ELSE rest])

\* the z of nose, eyes and the other points give a mean z of 1 at every length drawn
NosePt == FacePt(F(1, 0), F(2, 0), 3)
RestPt(a) == FacePt(F(1, a), F(5, 0), 1)
EyeL(x, y) == FacePt(x, y, -1)
EyeR(x, y) == FacePt(x, y, 1)

\* x of the other face points: 1.0, and the float64 next to it
RestFine == {0, 1}
\* eye distances below the 1e-6 of line 87, in units of 2^-52
TinyDist == {0, 1, 3}

EyePairs ==
    \* on one horizontal line, a power of two apart, either way round
    {<<EyeL(F(1, 0), F(2, 0)), EyeR(F(1 + Pow2(k), 0), F(2, 0))>> : k \in 0..MaxEyeExp}
    \cup {<<EyeL(F(1 + Pow2(k), 0), F(2, 0)), EyeR(F(1, 0), F(2, 0))>> : k \in 0..MaxEyeExp}
    \* one above the other
    \cup {<<EyeL(F(1, 0), F(1, 0)), EyeR(F(1, 0), F(3, 0))>>}
    \* at one place, or a few 2^-52 apart
    \cup {<<EyeL(F(1, 0), F(2, 0)), EyeR(F(1, t), F(2, 0))>> : t \in TinyDist}

FaceLens == {0, 1, LEFT_EYE + 7, FACE_COUNT - 1, FACE_COUNT, FACE_COUNT + 10}

Faces ==
    {None}
    \cup {MakeFace(n, NosePt, EyeL(F(1, 0), F(2, 0)), EyeR(F(3, 0), F(2, 0)), RestPt(0)) :
            n \in FaceLens}
    \cup {MakeFace(FACE_COUNT, NosePt, e[1], e[2], RestPt(a)) :
            e \in EyePairs, a \in RestFine}

\* pose points: x in {0, 1 + 2^-52, 2}, a mean z of 1 (33/32 for POSE_COUNT - 1 points)
PoseX(j) == F(j % 3, IF j % 3 = 1 THEN 1 ELSE 0)
PosePt(j) == [x |-> PoseX(j), y |-> F(2 + (j % 2), 0), z |-> j % 3, visibility |-> j % 5]
PosePtNoVis(j) == [x |-> PoseX(j), y |-> F(2 + (j % 2), 0), z |-> j % 3]
MakePose(n) == LandmarkList([j \in 1..n |-> PosePt(j)])
MakePoseNoVis(n) == LandmarkList([j \in 1..n |-> PosePtNoVis(j)])

PoseLens == {0, POSE_COUNT - 1, POSE_COUNT}
Poses == {None} \cup {MakePose(n) : n \in PoseLens} \cup {MakePoseNoVis(POSE_COUNT)}

\* offsets along x: the float64 values -MaxShift .. MaxShift + 2^-52 that are
\* whole or one 2^-52 above a whole number; along y: none, and MaxShift either way
ShiftsX == {d \in (-MaxShift..MaxShift) \X {0, 1} : FRound(d[1], d[2]) = d}
ShiftsY == {F(n, 0) : n \in {-MaxShift, 0, MaxShift}}
Shifts == ShiftsX \X ShiftsY

\* every point of the set moved by d in (x, y) with float64 additions; z and
\* visibility kept
ShiftSet(set, d) ==
    IF ~set.present THEN set
    ELSE LandmarkList([i \in 1..Len(set.landmark) |->
            [set.landmark[i] EXCEPT !.x = FAdd(@, d[1]), !.y = FAdd(@, d[2])]])

\* the eye distance of the set is one the model divides by exactly: a power of
\* two, or below 1e-6 (scale 1.0)
ScaleExact(set) ==
    \/ ~set.present
    \/ Len(set.landmark) <= RIGHT_EYE
    \/ LET s == Scale(set.landmark) IN s[2] = 0 /\ Pow2Floor(s[1]) = s[1]

Pending == [raised |-> "pending", vals |-> <<>>]

---------------------------------------------------------------------------
(* Normaliser harness: one call on the input, one on the shifted input *)
LoopIdle ==
    /\ state = "START" /\ fileExists = FALSE /\ file = <<>> /\ capHeld = FALSE
    /\ last = [event |-> "none", frame |-> 0]
    /\ existed0 = FALSE /\ file0 = <<>> /\ nLogged = 0 /\ nNormOk = 0
    /\ stdoutEncodes = TRUE

InitNorm ==
    /\ inFace \in Faces
    /\ inPose \in Poses
    /\ shift \in {d \in Shifts : ScaleExact(ShiftSet(inFace, d))}
    /\ out = Pending
    /\ outShifted = Pending
    /\ LoopIdle

Normalize ==
    /\ out = Pending
    /\ out' = normalize_landmarks(inFace, inPose)
    /\ UNCHANGED <<inFace, inPose, shift, outShifted>>
    /\ UNCHANGED loopVars

NormalizeShifted ==
    /\ outShifted = Pending
    /\ outShifted' = normalize_landmarks(ShiftSet(inFace, shift), ShiftSet(inPose, shift))
    /\ UNCHANGED <<inFace, inPose, shift, out>>
    /\ UNCHANGED loopVars

NextNorm == Normalize \/ NormalizeShifted

SpecNorm == InitNorm /\ [][NextNorm]_vars

---------------------------------------------------------------------------
(* Frames the detector can produce in the capture loop *)
FaceA == MakeFace(FACE_COUNT, NosePt, EyeL(F(1, 0), F(2, 0)), EyeR(F(3, 0), F(2, 0)), RestPt(1))
FaceB == MakeFace(FACE_COUNT, NosePt, EyeL(F(1, 0), F(2, 0)), EyeR(F(1, 0), F(2, 0)), RestPt(1))
FaceShort == MakeFace(FACE_COUNT - 1, NosePt, EyeL(F(1, 0), F(2, 0)), EyeR(F(3, 0), F(2, 0)), RestPt(1))
FaceOne == MakeFace(1, NosePt, NosePt, NosePt, RestPt(1))
PoseA == MakePose(POSE_COUNT)
PoseEmpty == MakePose(0)

Frames ==
    << [face |-> None,      pose |-> None],
       [face |-> FaceA,     pose |-> None],
       [face |-> None,      pose |-> PoseA],
       [face |-> FaceA,     pose |-> PoseA],
       [face |-> FaceShort, pose |-> PoseA],
       [face |-> FaceOne,   pose |-> PoseA],
       [face |-> FaceA,     pose |-> PoseEmpty],
       [face |-> FaceB,     pose |-> PoseA] >>
FrameIds == 1..Len(Frames)

\* line 165 on each frame
NormResults == [f \in FrameIds |-> normalize_landmarks(Frames[f].face, Frames[f].pose)]

\* cv2.waitKey(1) & 0xFF: the command keys, one other key ('2'), and no key
Keys == {ORD_Q, ESC, ORD_0, ORD_1, ORD_1 + 1, NO_KEY}
QuitKeys == {ORD_Q, ESC}
LabelKeys == {ORD_0, ORD_1}

\* line 163
Label(key) == IF key = ORD_0 THEN 0 ELSE 1

---------------------------------------------------------------------------
(* The CSV file *)
\* lines 44-53
make_header ==
    Flatten([i \in 1..FACE_COUNT |->
                <<"face_" \o ToString(i - 1) \o "_x",
                  "face_" \o ToString(i - 1) \o "_y",
                  "face_" \o ToString(i - 1) \o "_z">>], 3)
    \o Flatten([i \in 1..POSE_COUNT |->
                <<"pose_" \o ToString(i - 1) \o "_x",
                  "pose_" \o ToString(i - 1) \o "_y",
                  "pose_" \o ToString(i - 1) \o "_z",
                  "pose_" \o ToString(i - 1) \o "_v">>], 4)
    \o <<"label", "timestamp">>

\* line 169: row = [label] + vals, for the label command `label` on frame f
RowOf(label, f) == <<label>> \o NormResults[f].vals
\* the number of its cells
RowLen == [f \in FrameIds |-> 1 + Len(NormResults[f].vals)]

\* a row of the file: the first `cells` cells of the column names, or of the row
\* of a label command, followed by a line end or not
HeaderRow ==
    [kind |-> "header", label |-> 0, frame |-> 0, cells |-> Len(make_header), eol |-> TRUE]
Written(label, f, k, eol) ==
    [kind |-> "data", label |-> label, frame |-> f, cells |-> k, eol |-> eol]
DataRow(label, f) == Written(label, f, RowLen[f], TRUE)

\* the text a row was written from, and the cells of it that are in the file
RowText(r) == IF r.kind = "header" THEN make_header ELSE RowOf(r.label, r.frame)
Cells(r) == SubSeq(RowText(r), 1, r.cells)
\* all cells and the line end are in the file
WholeRow(r) == r.cells = Len(RowText(r)) /\ r.eol
IsHeaderRow(r) == WholeRow(r) /\ Cells(r) = make_header

IsPrefix(s, t) == Len(s) <= Len(t) /\ \A i \in 1..Len(s) : t[i] = s[i]

\* a file found at start-up: a header someone wrote, or a row an earlier run appended
ExistingFiles == { <<HeaderRow>>, <<DataRow(1, 4)>> }

Event(e, f) == [event |-> e, frame |-> f]

---------------------------------------------------------------------------
(* The capture script *)
NormIdle ==
    /\ inFace = None /\ inPose = None /\ shift = <<Zero, Zero>>
    /\ out = Pending /\ outShifted = Pending

Init ==
    /\ state = "START"
    /\ fileExists \in BOOLEAN
    /\ file \in (IF fileExists THEN ExistingFiles ELSE {<<>>})
    /\ capHeld = FALSE
    /\ last = Event("none", 0)
    /\ existed0 = fileExists
    /\ file0 = file
    /\ nLogged = 0
    /\ nNormOk = 0
    /\ stdoutEncodes \in BOOLEAN
    /\ NormIdle

\* lines 56-59: open(CSV_FILE, 'w') creates the file; the writer writes nothing
InitCSV ==
    /\ state = "START"
    /\ state' = "CSV_READY"
    /\ IF ~fileExists
       THEN fileExists' = TRUE /\ file' = <<>>
       ELSE UNCHANGED <<fileExists, file>>
    /\ UNCHANGED <<capHeld, last, existed0, file0, nLogged, nNormOk, stdoutEncodes>>
    /\ UNCHANGED normVars

\* lines 111-123
OpenCapture ==
    /\ state = "CSV_READY"
    /\ state' = "RUNNING"
    /\ capHeld' = TRUE
    /\ UNCHANGED <<fileExists, file, last, existed0, file0, nLogged, nNormOk, stdoutEncodes>>
    /\ UNCHANGED normVars

\* lines 112-113: RuntimeError('Could not open webcam')
OpenCaptureFails ==
    /\ state = "CSV_READY"
    /\ state' = "CRASHED"
    /\ UNCHANGED <<fileExists, file, capHeld, last, existed0, file0, nLogged, nNormOk,
                   stdoutEncodes>>
    /\ UNCHANGED normVars

\* lines 125-128, then 176-177
GrabFail ==
    /\ state = "RUNNING"
    /\ state' = "STOPPED"
    /\ capHeld' = FALSE
    /\ last' = Event("grabfail", 0)
    /\ UNCHANGED <<fileExists, file, existed0, file0, nLogged, nNormOk, stdoutEncodes>>
    /\ UNCHANGED normVars

\* lines 159-161, then 176-177
Quit(key) ==
    /\ state = "RUNNING"
    /\ key \in QuitKeys
    /\ state' = "STOPPED"
    /\ capHeld' = FALSE
    /\ last' = Event("quit", 0)
    /\ UNCHANGED <<fileExists, file, existed0, file0, nLogged, nNormOk, stdoutEncodes>>
    /\ UNCHANGED normVars

\* lines 159-162: no key, or a key that is no command
Idle(key) ==
    /\ state = "RUNNING"
    /\ key \notin QuitKeys \cup LabelKeys
    /\ last' = Event("frame", 0)
    /\ UNCHANGED <<state, fileExists, file, capHeld, existed0, file0, nLogged, nNormOk,
                   stdoutEncodes>>
    /\ UNCHANGED normVars

\* lines 162-168: normalize_landmarks raised; print and continue
LabelSkip(f, key) ==
    /\ state = "RUNNING"
    /\ key \in LabelKeys
    /\ NormResults[f].raised # "None"
    /\ stdoutEncodes
    /\ last' = Event("label", f)
    /\ UNCHANGED <<state, fileExists, file, capHeld, existed0, file0, nLogged, nNormOk,
                   stdoutEncodes>>
    /\ UNCHANGED normVars

\* lines 166-167: the message of the print holds non-ASCII characters; where
\* sys.stdout cannot encode them the print raises UnicodeEncodeError inside the
\* except block, nothing catches it, and lines 176-177 are not reached
LabelSkipPrintFails(f, key) ==
    /\ state = "RUNNING"
    /\ key \in LabelKeys
    /\ NormResults[f].raised # "None"
    /\ ~stdoutEncodes
    /\ last' = Event("label", f)
    /\ state' = "CRASHED"
    /\ UNCHANGED <<fileExists, file, capHeld, existed0, file0, nLogged, nNormOk,
                   stdoutEncodes>>
    /\ UNCHANGED normVars

\* lines 162-173: row = [label] + vals, appended to the file
LabelAppend(f, key) ==
    /\ state = "RUNNING"
    /\ key \in LabelKeys
    /\ NormResults[f].raised = "None"
    /\ Len(file) - Len(file0) < MaxRows
    /\ last' = Event("label", f)
    /\ file' = Append(file, DataRow(Label(key), f))
    /\ nLogged' = nLogged + 1
    /\ nNormOk' = nNormOk + 1
    /\ UNCHANGED <<state, fileExists, capHeld, existed0, file0, stdoutEncodes>>
    /\ UNCHANGED normVars

\* line 170: open(CSV_FILE, 'a') raises OSError (e.g. permission denied); nothing
\* catches it, the script ends with a traceback and lines 176-177 are not reached
LabelWriteFails(f, key) ==
    /\ state = "RUNNING"
    /\ key \in LabelKeys
    /\ NormResults[f].raised = "None"
    /\ last' = Event("label", f)
    /\ state' = "CRASHED"
    /\ nNormOk' = nNormOk + 1
    /\ UNCHANGED <<fileExists, file, capHeld, existed0, file0, nLogged, stdoutEncodes>>
    /\ UNCHANGED normVars

\* lines 170-172: the row reaches the file in pieces and the storage fails partway
\* (e.g. disk full): writerow or the close of the with block raises OSError and
\* nothing catches it.  The file keeps what the storage took: the first k cells
\* of the row, any k from one cell to all of them (the last then possibly cut),
\* and no line end.  Line 173 is not reached, the script ends with a traceback
\* and lines 176-177 are not reached
LabelWritePartial(f, key) ==
    /\ state = "RUNNING"
    /\ key \in LabelKeys
    /\ NormResults[f].raised = "None"
    /\ last' = Event("label", f)
    /\ \E k \in 1..RowLen[f] : file' = Append(file, Written(Label(key), f, k, FALSE))
    /\ state' = "CRASHED"
    /\ nNormOk' = nNormOk + 1
    /\ UNCHANGED <<fileExists, capHeld, existed0, file0, nLogged, stdoutEncodes>>
    /\ UNCHANGED normVars

Next ==
    \/ InitCSV
    \/ OpenCapture
    \/ OpenCaptureFails
    \/ \E f \in FrameIds, key \in Keys : LabelWriteFails(f, key)
    \/ \E f \in FrameIds, key \in Keys : LabelWritePartial(f, key)
    \/ \E f \in FrameIds, key \in Keys : LabelAppend(f, key)
    \/ \E f \in FrameIds, key \in Keys : LabelSkip(f, key)
    \/ \E f \in FrameIds, key \in Keys : LabelSkipPrintFails(f, key)
    \/ \E key \in Keys : Idle(key)
    \/ \E key \in Keys : Quit(key)
    \/ GrabFail

Spec == Init /\ [][Next]_vars

---------------------------------------------------------------------------
(* Claims about normalize_landmarks, checked under SpecNorm *)
Applied == out # Pending
BothPresent == inFace.present /\ inPose.present
ValidInput ==
    /\ BothPresent
    /\ Len(inFace.landmark) = FACE_COUNT
    /\ Len(inPose.landmark) = POSE_COUNT
Sign(n) == IF n > 0 THEN 1 ELSE IF n < 0 THEN -1 ELSE 0
\* sign of x - y for float64 values x, y
SignDiff(x, y) == IF x[1] # y[1] THEN Sign(x[1] - y[1]) ELSE Sign(x[2] - y[2])
\* sign of an x or y slot of the vector
SignXY(c) == IF c[1][1] # 0 THEN Sign(c[1][1]) ELSE Sign(c[2][1])

\* C3: for a face set of FACE_COUNT points and a pose set of POSE_COUNT points the
\* call returns FACE_COUNT*3 + POSE_COUNT*4 values: per face point, in order, an
\* x slot, a y slot and a z slot, then per pose point an x, y, z and visibility slot.
\* The slots are told apart by what they hold: an x (y) slot has the sign of the
\* point's x (y) offset from the nose, z slots differ by the raw z difference, and
\* a visibility slot holds the point's visibility unchanged.
C3_LengthAndLayout ==
    (Applied /\ ValidInput) =>
        LET face == inFace.landmark
            pose == inPose.landmark
            v == out.vals
            nose == face[NOSE + 1]
            base == FACE_COUNT * 3
        IN  /\ out.raised = "None"
            /\ Len(v) = FACE_COUNT * 3 + POSE_COUNT * 4
            /\ \A i \in 0..(FACE_COUNT - 1) :
                  /\ SignXY(v[3 * i + 1]) = SignDiff(face[i + 1].x, nose.x)
                  /\ SignXY(v[3 * i + 2]) = SignDiff(face[i + 1].y, nose.y)
                  /\ RatSub(v[3 * i + 3], v[3]) = Rat(face[i + 1].z - face[1].z, 1)
            /\ \A j \in 0..(POSE_COUNT - 1) :
                  /\ SignXY(v[base + 4 * j + 1]) = SignDiff(pose[j + 1].x, nose.x)
                  /\ SignXY(v[base + 4 * j + 2]) = SignDiff(pose[j + 1].y, nose.y)
                  /\ RatSub(v[base + 4 * j + 3], v[base + 3]) = Rat(pose[j + 1].z - pose[1].z, 1)
                  /\ v[base + 4 * j + 4] = Rat(Visibility(pose[j + 1]), 1)

\* a valid input with distinct eyes has been normalised to a full-length vector
C3_Witness ==
    /\ Applied /\ ValidInput
    /\ EyeDist(inFace.landmark) = F(2, 0)
    /\ Len(out.vals) = FACE_COUNT * 3 + POSE_COUNT * 4

\* C4: a present face set or pose set of the wrong length makes the call fail;
\* no vector is returned for it.
C4_WrongCountFails ==
    (Applied /\ BothPresent
        /\ (Len(inFace.landmark) # FACE_COUNT \/ Len(inPose.landmark) # POSE_COUNT))
    => (out.raised # "None" /\ out.vals = <<>>)

\* C5: with the face set absent or the pose set absent the call raises the
\* missing-input error (ValueError, line 72) whatever the other set holds, and
\* returns no vector.
C5_MissingInput ==
    (Applied /\ ~BothPresent) => (out.raised = "ValueError" /\ out.vals = <<>>)

\* the pose is absent and the face is an empty set, which alone would fail differently
C5_Witness ==
    /\ Applied /\ inFace.present /\ ~inPose.present
    /\ Len(inFace.landmark) = 0
    /\ out.raised = "ValueError"

\* both calls of the harness have been made on a valid input
BothApplied == Applied /\ outShifted # Pending /\ ValidInput

\* the offset can be added to the coordinate without rounding
ExactSum(x, d) == FAdd(x, d) = F(x[1] + d[1], x[2] + d[2])
\* the shifted input is the exact translate of the input: no coordinate of it
\* had to be rounded
ExactTranslate ==
    /\ \A i \in 1..Len(inFace.landmark) :
          /\ ExactSum(inFace.landmark[i].x, shift[1])
          /\ ExactSum(inFace.landmark[i].y, shift[2])
    /\ \A j \in 1..Len(inPose.landmark) :
          /\ ExactSum(inPose.landmark[j].x, shift[1])
          /\ ExactSum(inPose.landmark[j].y, shift[2])

\* C10: for a valid input, moving every face and pose point by the same (x, y)
\* offset leaves the returned vector exactly as it was, also when the eye
\* distance is below 1e-6 and the scale is 1.0.
C10_TranslationInvariant ==
    BothApplied => outShifted = out

\* C10 as amended: for a valid input and an offset that float64 can add to every
\* coordinate without rounding, the shifted input yields exactly the vector of
\* the input, also when the eye distance is below 1e-6 and the scale is 1.0.
C10_ExactTranslateInvariant ==
    (BothApplied /\ ExactTranslate) => outShifted = out

\* a valid input whose eyes are three 2^-52 apart (scale 1.0), with points at
\* x = 1 + 2^-52, and its exact translate by a non-zero offset have both been
\* normalised to the same vector
C10_Witness ==
    /\ BothApplied /\ ExactTranslate
    /\ shift[1] # Zero
    /\ EyeDist(inFace.landmark) = F(0, 3)
    /\ inFace.landmark[1].x = F(1, 1)
    /\ out.raised = "None"
    /\ outShifted = out

---------------------------------------------------------------------------
(* Claims about the capture script, checked under Spec *)
AppendedRows == Len(file) - Len(file0)
Terminal == state \in {"STOPPED", "CRASHED"}
NormFailed(f) == NormResults[f].raised # "None"

\* C1: after the initialisation at start-up, a file that was absent holds exactly
\* the header row, and a file that existed holds what it held.
C1_InitWritesHeader ==
    state = "CSV_READY" =>
        /\ fileExists
        /\ IF existed0
           THEN file = file0
           ELSE Len(file) = 1 /\ IsHeaderRow(file[1])

\* C2: starting without a file, the file always is one header row followed by one
\* data row per recorded label command, each as wide as the header.
C2_HeaderThenRows ==
    (state # "START" /\ ~existed0) =>
        /\ Len(file) = 1 + nLogged
        /\ IsHeaderRow(file[1])
        /\ \A i \in 2..Len(file) : Len(Cells(file[i])) = Len(make_header)

\* C6: in every state the rows appended so far are as many as the label commands
\* handled whose normalisation succeeded; every step keeps the rows already in
\* the file, and only a label command whose normalisation succeeded adds a row,
\* one whole row per command.
C6_OneRowPerCommand ==
    [][/\ AppendedRows' = nNormOk'
       /\ IsPrefix(file, file')
       /\ (file' # file =>
             /\ last'.event = "label"
             /\ ~NormFailed(last'.frame)
             /\ Len(file') = Len(file) + 1
             /\ WholeRow(file'[Len(file')])
             /\ Cells(file'[Len(file')]) = RowOf(file'[Len(file')].label, last'.frame))]_vars

\* C7: a label command on a frame whose normalisation raises leaves the file as it
\* is and the loop running.
C7_SkipOnFailure ==
    [][(state = "RUNNING" /\ last'.event = "label" /\ NormFailed(last'.frame))
        => (file' = file /\ state' = "RUNNING" /\ capHeld' /\ nLogged' = nLogged)]_vars

\* C8: the loop leaves RUNNING only by the quit command: no frame without
\* landmarks, failed normalisation, failed append or failed frame grab ends it.
C8_OnlyQuitStops ==
    [][(state = "RUNNING" /\ state' # "RUNNING") => last'.event = "quit"]_vars

\* C9: once the script has ended, the capture device is not held.
C9_ReleasedAtEnd == Terminal => ~capHeld

====
